---- MODULE Spec2Model ----
(***************************************************************************)
(* A model of main.py of image_video_editor: the folder driver             *)
(* process_files_in_folder, the pixel rule of make_transparent, the        *)
(* geometry of add_logo_to_image and the trim of add_logo_to_video.        *)
(*                                                                         *)
(* File names and paths are sequences of one-character strings, so that    *)
(* lower(), endswith(), slicing and concatenation are computed, not        *)
(* assumed.                                                                *)
(***************************************************************************)
EXTENDS Integers, Sequences, FiniteSets, TLC

VARIABLES
    \* ---- process_files_in_folder ----
    folder_state,   \* the folder on disk: "present", "missing" or "unreadable"
    children,       \* names of the immediate children of the folder
    folder_path,    \* argument folder_path
    output_path,    \* argument output_path (a prefix, not joined)
    pc,             \* position of the driver
    all_files,      \* result of glob.glob
    video_files,    \* list comprehension of line 125
    image_files,    \* list comprehension of line 126
    vi,             \* index of the next video file of the first loop
    ii,             \* index of the next image file of the second loop
    active,         \* watermarker calls in progress
    calls,          \* every watermarker call started, in order
    returned,       \* input files whose call has returned
    outputs,        \* files written: records [path, from]
    err,            \* the exception that left the driver, or "none"
    \* ---- make_transparent ----
    img,            \* input pixels, each <<r, g, b, a>>
    alpha,          \* argument alpha
    new_img,        \* returned pixels
    pcT,
    \* ---- add_logo_to_image ----
    logo_size,      \* logo.size as opened
    image_size,     \* image.size
    new_logo_height,
    resized_size,   \* logo.size after resize
    paste_at,       \* position handed to image.paste
    pcI,
    \* ---- add_logo_to_video ----
    duration,       \* video.duration, in ticks
    src_audio,      \* whether the source file carries an audio stream
    clip,           \* the clip under construction
    written,        \* the files write_videofile wrote
    errV,
    pcV

driver_vars == <<folder_state, children, folder_path, output_path, pc, all_files,
                 video_files, image_files, vi, ii, active, calls, returned,
                 outputs, err>>
pixel_vars == <<img, alpha, new_img, pcT>>
image_vars == <<logo_size, image_size, new_logo_height, resized_size, paste_at, pcI>>
video_vars == <<duration, src_audio, clip, written, errV, pcV>>
vars == <<driver_vars, pixel_vars, image_vars, video_vars>>

----------------------------------------------------------------------------
\* Bounds of the model.

\* Largest number of children of the scanned folder.
MaxFiles == 3

\* Largest number of pixels of a logo handed to make_transparent.
MaxPixels == 2

\* Largest side of the logo as opened, and largest target height.
MaxLogoSide == 4
MaxTargetHeight == 4

\* Image sides are 1..MaxImageSide, below the bottom margin, and the same
\* range above it.
MaxImageSide == 3

\* Time is counted in ticks; durations range over 0..MaxDuration ticks.
TicksPerSecond == 2
MaxDuration == 16

----------------------------------------------------------------------------
\* Strings.

\* str.lower() on one character of the alphabet used here.
lower_char(c) ==
    CASE c = "M" -> "m"
      [] c = "O" -> "o"
      [] c = "V" -> "v"
      [] c = "H" -> "h"
      [] c = "E" -> "e"
      [] c = "I" -> "i"
      [] c = "C" -> "c"
      [] c = "P" -> "p"
      [] OTHER -> c

\* str.lower()
lower(s) == [i \in 1..Len(s) |-> lower_char(s[i])]

\* str.endswith(suffix)
endswith(s, suffix) ==
    /\ Len(suffix) <= Len(s)
    /\ SubSeq(s, Len(s) - Len(suffix) + 1, Len(s)) = suffix

\* s[:-n] for n > 0
drop_last(s, n) == IF Len(s) <= n THEN << >> ELSE SubSeq(s, 1, Len(s) - n)

\* Positions of "/" in a path.
SepPositions(p) == {i \in 1..Len(p) : p[i] = "/"}

\* os.path.basename: what follows the last "/".
basename(p) ==
    IF SepPositions(p) = {} THEN p
    ELSE LET last == CHOOSE i \in SepPositions(p) : \A j \in SepPositions(p) : j <= i
         IN  SubSeq(p, last + 1, Len(p))

\* os.path.join(a, b) for a relative b.
path_join(a, b) ==
    IF a = << >> \/ a[Len(a)] = "/" THEN a \o b ELSE a \o <<"/">> \o b

dot_mov == <<".", "m", "o", "v">>
dot_heic == <<".", "h", "e", "i", "c">>
logo_MP4 == <<"_", "l", "o", "g", "o", ".", "M", "P", "4">>
logo_jpg == <<"_", "l", "o", "g", "o", ".", "j", "p", "g">>

----------------------------------------------------------------------------
\* The inputs of the driver.

Stems == {<<"a">>, <<"b">>, <<".", "a">>}
Exts == {<<".", "m", "o", "v">>, <<".", "M", "O", "V">>,
         <<".", "h", "e", "i", "c">>, <<".", "m", "p", "4">>, <<"m", "o", "v">>,
         <<"_", "l", "o", "g", "o", ".", "j", "p", "g">>}
Names == {s \o e : s \in Stems, e \in Exts}

\* (folder_path, output_path) pairs: a separate output folder, a folder path
\* without its trailing separator, and output into the scanned folder itself.
PathArgs == {<< <<"r", "/">>, <<"o", "/">> >>,
             << <<"r">>, <<"o", "/">> >>,
             << <<"r", "/">>, <<"r", "/">> >>}

----------------------------------------------------------------------------
\* glob.glob(os.path.join(folder_path, '*'))

\* glob._ishidden
ishidden(name) == name[1] = "."

\* The names glob's '*' yields for a folder: os.scandir errors are swallowed
\* (an absent or unreadable folder lists nothing) and, the pattern not
\* starting with a dot, hidden names are filtered out.
glob_names(state, names) ==
    IF state = "present" THEN {n \in names : ~ishidden(n)} ELSE {}

\* A scan that reports a folder it cannot list (what os.listdir would do).
glob_error_raising(state) == IF state = "present" THEN "none" ELSE "OSError"

\* The exception glob.glob raises for a folder in the given state.
glob_error(state) == "none"

\* Every order in which a set of names can be listed (os.scandir order).
Orders(S) == {s \in [1..Cardinality(S) -> S] : \A i, j \in 1..Cardinality(S) :
                                                  s[i] = s[j] => i = j}

\* os.path.split(pattern)[0] as glob takes it: what precedes the last "/".
glob_dirname(pattern) ==
    LET last == CHOOSE i \in SepPositions(pattern) : \A j \in SepPositions(pattern) : j <= i
    IN  SubSeq(pattern, 1, last - 1)

\* glob.glob(os.path.join(folder, '*')) with the names listed in the given order.
glob(folder, order) ==
    LET pattern == path_join(folder, <<"*">>)
    IN  [i \in 1..Len(order) |-> path_join(glob_dirname(pattern), order[i])]

is_video(f) == endswith(lower(f), dot_mov)
is_image(f) == endswith(lower(f), dot_heic)

\* The video slice taken one character short.
video_output_short_slice(prefix, f) == prefix \o drop_last(basename(f), 3) \o logo_MP4

\* output_path + os.path.basename(video_file)[:-4] + '_logo.MP4'
video_output(prefix, f) == prefix \o drop_last(basename(f), 4) \o logo_MP4

\* output_path + os.path.basename(image_file)[:-5] + '_logo.jpg'
image_output(prefix, f) == prefix \o drop_last(basename(f), 5) \o logo_jpg

\* A file at path p is written on behalf of input f, replacing what was there.
write_file(outs, p, f) == {o \in outs : o.path # p} \cup {[path |-> p, from |-> f]}

----------------------------------------------------------------------------
\* Idle values of the variables a specification does not use.

NoClip == [offset |-> 0, duration |-> 0, audio |-> FALSE, logo |-> FALSE]

PixelIdle ==
    /\ img = << >> /\ alpha = 0 /\ new_img = << >> /\ pcT = "idle"
ImageIdle ==
    /\ logo_size = <<1, 1>> /\ image_size = <<1, 1>> /\ new_logo_height = 1
    /\ resized_size = <<0, 0>> /\ paste_at = <<0, 0>> /\ pcI = "idle"
VideoIdle ==
    /\ duration = 0 /\ src_audio = FALSE /\ clip = NoClip /\ written = {}
    /\ errV = "none" /\ pcV = "idle"
DriverIdle ==
    /\ folder_state = "missing" /\ children = {} /\ folder_path = <<"r", "/">>
    /\ output_path = <<"o", "/">> /\ pc = "idle" /\ all_files = << >>
    /\ video_files = << >> /\ image_files = << >> /\ vi = 1 /\ ii = 1
    /\ active = {} /\ calls = << >> /\ returned = {} /\ outputs = {}
    /\ err = "none"

----------------------------------------------------------------------------
\* process_files_in_folder

Init ==
    /\ folder_state \in {"present", "missing", "unreadable"}
    /\ children \in {S \in SUBSET Names : Cardinality(S) <= MaxFiles}
    /\ folder_state # "present" => children = {}
    /\ \E a \in PathArgs : folder_path = a[1] /\ output_path = a[2]
    /\ pc = "start"
    /\ all_files = << >> /\ video_files = << >> /\ image_files = << >>
    /\ vi = 1 /\ ii = 1
    /\ active = {} /\ calls = << >> /\ returned = {} /\ outputs = {}
    /\ err = "none"
    /\ PixelIdle /\ ImageIdle /\ VideoIdle

\* Lines 122-126: glob, then the two list comprehensions.
Scan ==
    /\ pc = "start"
    /\ IF glob_error(folder_state) # "none"
       THEN /\ err' = glob_error(folder_state)
            /\ pc' = "raised"
            /\ UNCHANGED <<all_files, video_files, image_files>>
       ELSE \E order \in Orders(glob_names(folder_state, children)) :
            LET listed == glob(folder_path, order)
            IN  /\ all_files' = listed
                /\ video_files' = SelectSeq(listed, is_video)
                /\ image_files' = SelectSeq(listed, is_image)
                /\ pc' = "videos"
                /\ err' = err
    /\ UNCHANGED <<folder_state, children, folder_path, output_path, vi, ii,
                   active, calls, returned, outputs>>
    /\ UNCHANGED <<pixel_vars, image_vars, video_vars>>

\* Line 130: the loop body calls add_logo_to_video and waits for it.
StartVideo ==
    /\ pc = "videos" /\ active = {} /\ vi <= Len(video_files)
    /\ LET f == video_files[vi]
           c == [kind |-> "video", file |-> f, out |-> video_output(output_path, f)]
       IN  /\ active' = {c}
           /\ calls' = Append(calls, c)
    /\ UNCHANGED <<folder_state, children, folder_path, output_path, pc, all_files,
                   video_files, image_files, vi, ii, returned, outputs, err>>
    /\ UNCHANGED <<pixel_vars, image_vars, video_vars>>

\* add_logo_to_video returns: its output file is written, the loop advances.
VideoReturns ==
    /\ pc = "videos"
    /\ \E c \in active :
         /\ outputs' = write_file(outputs, c.out, c.file)
         /\ returned' = returned \cup {c.file}
         /\ active' = active \ {c}
    /\ vi' = vi + 1
    /\ UNCHANGED <<folder_state, children, folder_path, output_path, pc, all_files,
                   video_files, image_files, ii, calls, err>>
    /\ UNCHANGED <<pixel_vars, image_vars, video_vars>>

\* A loop body that catches the error, records it and goes on to the next file.
VideoRaises_SkipAndContinue ==
    /\ pc = "videos"
    /\ \E c \in active : active' = active \ {c}
    /\ err' = "video_error"
    /\ vi' = vi + 1
    /\ UNCHANGED <<folder_state, children, folder_path, output_path, pc, all_files,
                   video_files, image_files, ii, calls, returned, outputs>>
    /\ UNCHANGED <<pixel_vars, image_vars, video_vars>>

\* add_logo_to_video raises (decode, encode or trim error): nothing catches it.
\* The encoder may or may not have left a file at the output path.
VideoRaises ==
    /\ pc = "videos"
    /\ \E c \in active :
         /\ \/ outputs' = outputs
            \/ outputs' = write_file(outputs, c.out, c.file)
         /\ active' = active \ {c}
    /\ err' = "video_error"
    /\ pc' = "raised"
    /\ UNCHANGED <<folder_state, children, folder_path, output_path, all_files,
                   video_files, image_files, vi, ii, calls, returned>>
    /\ UNCHANGED <<pixel_vars, image_vars, video_vars>>

\* The second loop entered while video files are still waiting.
VideosDone_Early ==
    /\ pc = "videos" /\ active = {}
    /\ pc' = "images"
    /\ UNCHANGED <<folder_state, children, folder_path, output_path, all_files,
                   video_files, image_files, vi, ii, active, calls, returned,
                   outputs, err>>
    /\ UNCHANGED <<pixel_vars, image_vars, video_vars>>

\* Line 129: the first loop is exhausted, the second begins.
VideosDone ==
    /\ pc = "videos" /\ active = {} /\ vi > Len(video_files)
    /\ pc' = "images"
    /\ UNCHANGED <<folder_state, children, folder_path, output_path, all_files,
                   video_files, image_files, vi, ii, active, calls, returned,
                   outputs, err>>
    /\ UNCHANGED <<pixel_vars, image_vars, video_vars>>

\* Line 135: the loop body calls add_logo_to_image and waits for it.
StartImage ==
    /\ pc = "images" /\ active = {} /\ ii <= Len(image_files)
    /\ LET f == image_files[ii]
           c == [kind |-> "image", file |-> f, out |-> image_output(output_path, f)]
       IN  /\ active' = {c}
           /\ calls' = Append(calls, c)
    /\ UNCHANGED <<folder_state, children, folder_path, output_path, pc, all_files,
                   video_files, image_files, vi, ii, returned, outputs, err>>
    /\ UNCHANGED <<pixel_vars, image_vars, video_vars>>

ImageReturns ==
    /\ pc = "images"
    /\ \E c \in active :
         /\ outputs' = write_file(outputs, c.out, c.file)
         /\ returned' = returned \cup {c.file}
         /\ active' = active \ {c}
    /\ ii' = ii + 1
    /\ UNCHANGED <<folder_state, children, folder_path, output_path, pc, all_files,
                   video_files, image_files, vi, calls, err>>
    /\ UNCHANGED <<pixel_vars, image_vars, video_vars>>

ImageRaises ==
    /\ pc = "images"
    /\ \E c \in active :
         /\ \/ outputs' = outputs
            \/ outputs' = write_file(outputs, c.out, c.file)
         /\ active' = active \ {c}
    /\ err' = "image_error"
    /\ pc' = "raised"
    /\ UNCHANGED <<folder_state, children, folder_path, output_path, all_files,
                   video_files, image_files, vi, ii, calls, returned>>
    /\ UNCHANGED <<pixel_vars, image_vars, video_vars>>

\* Line 134: the second loop is exhausted, the function returns.
ImagesDone ==
    /\ pc = "images" /\ active = {} /\ ii > Len(image_files)
    /\ pc' = "done"
    /\ UNCHANGED <<folder_state, children, folder_path, output_path, all_files,
                   video_files, image_files, vi, ii, active, calls, returned,
                   outputs, err>>
    /\ UNCHANGED <<pixel_vars, image_vars, video_vars>>

Next ==
    \/ Scan
    \/ StartVideo
    \/ VideoReturns
    \/ VideoRaises
    \/ VideosDone
    \/ StartImage
    \/ ImageReturns
    \/ ImageRaises
    \/ ImagesDone

Spec == Init /\ [][Next]_vars

----------------------------------------------------------------------------
\* Vocabulary of the properties of the driver.

Range(s) == {s[i] : i \in 1..Len(s)}

\* The path of a child of the scanned folder.
ChildPath(n) == path_join(folder_path, n)

\* Children whose lowercased name ends in the given extension.
ChildrenEnding(ext) == {n \in children : endswith(lower(n), ext)}

\* A file name with its extension (the last dot and what follows) stripped.
StripExt(name) ==
    LET dots == {i \in 1..Len(name) : name[i] = "."}
        last == CHOOSE i \in dots : \A j \in dots : j <= i
    IN  IF dots = {} THEN name ELSE SubSeq(name, 1, last - 1)

\* The output path the naming convention gives an input file.
ExpectedOutput(f, suffix) == output_path \o StripExt(basename(f)) \o suffix

Matched == Range(video_files) \cup Range(image_files)

----------------------------------------------------------------------------
\* C1: after the scan, the video list holds exactly the children of the folder
\* whose lowercased name ends in ".mov" and the image list exactly those whose
\* lowercased name ends in ".heic": none is skipped and nothing else is listed.
\* (Violated: glob's "*" never yields a child whose name starts with a dot.)
C1_ScanReturnsEveryMatchingChild ==
    pc \notin {"start", "raised"} =>
        /\ Range(video_files) = {ChildPath(n) : n \in ChildrenEnding(dot_mov)}
        /\ Range(image_files) = {ChildPath(n) : n \in ChildrenEnding(dot_heic)}

C3_OutputPathsExact ==
    /\ pc = "done" =>
          {o.path : o \in outputs} =
              {ExpectedOutput(f, logo_MP4) : f \in Range(video_files)}
              \cup {ExpectedOutput(f, logo_jpg) : f \in Range(image_files)}
    /\ \A o \in outputs : o.path \notin Matched
    /\ \A c \in Range(calls) : c.out \notin Matched

\* C3 witness: a finished run that wrote a video and an image output into the
\* scanned folder itself.
C3_Witness ==
    /\ pc = "done"
    /\ output_path = <<"r", "/">>
    /\ \E o \in outputs : o.from \in Range(video_files)
    /\ \E o \in outputs : o.from \in Range(image_files)

\* C4 as claimed: a folder that does not exist or cannot be read makes the scan
\* fail with an error that halts the run.
C4_MissingFolderRaises ==
    (folder_state # "present" /\ pc # "start") => (err # "none" /\ pc = "raised")

\* C4 amended: for a folder that is missing, unreadable or empty the scan
\* yields two empty lists, no error is raised and no watermarker is invoked.
C4_MissingFolderScansEmpty ==
    ((folder_state # "present" \/ children = {}) /\ pc # "start") =>
        /\ err = "none" /\ pc \in {"videos", "images", "done"}
        /\ all_files = << >> /\ video_files = << >> /\ image_files = << >>
        /\ calls = << >> /\ active = {} /\ outputs = {}

\* C4 witness: the run over a missing folder has returned normally.
C4_Witness == folder_state = "missing" /\ pc = "done" /\ err = "none"

\* C9: the outcome does not depend on the order of processing: at the end of an
\* error-free run every matched input file is the producer of the file at its
\* own output path, so no two input files share an output path.
\* (Violated: "a.mov" and "a.MOV" both write "a_logo.MP4".)
C9_OrderInsensitive ==
    pc = "done" =>
        /\ \A c \in Range(calls) : [path |-> c.out, from |-> c.file] \in outputs
        /\ \A c, d \in Range(calls) : c.out = d.out => c.file = d.file

\* C10: at most one watermarker call is in progress, no matched file is called
\* twice, no image call starts before every matched video's call has returned,
\* and a video that raises leaves every image file without a call.
C10_StrictlySequential ==
    /\ Cardinality(active) <= 1
    /\ \A i, j \in 1..Len(calls) : calls[i].file = calls[j].file => i = j
    /\ \A c \in Range(calls) : c.file \in Matched
    /\ \A c \in Range(calls) :
          c.kind = "image" => Range(video_files) \subseteq returned
    /\ err = "video_error" => \A c \in Range(calls) : c.kind = "video"

\* C10 witness: an image call is in progress after two video calls returned.
C10_Witness ==
    /\ Len(video_files) >= 2
    /\ \E c \in active : c.kind = "image"

----------------------------------------------------------------------------
\* make_transparent

\* The alpha value for which make_transparent returns its argument.
FullyOpaque == 255

RGBs == {<<0, 0, 0>>, <<255, 128, 1>>}
AlphaLevels == {0, 1, 128, 255}
Pixels == {<<c[1], c[2], c[3], a>> : c \in RGBs, a \in AlphaLevels}
Images == UNION {[1..n -> Pixels] : n \in 1..MaxPixels}

\* Lines 93-107.
make_transparent(im, a) ==
    IF a = FullyOpaque
    THEN im
    ELSE [i \in 1..Len(im) |->
            IF im[i][4] = 0
            THEN <<im[i][1], im[i][2], im[i][3], 0>>
            ELSE <<im[i][1], im[i][2], im[i][3], a>>]

InitTransparent ==
    /\ img \in Images
    /\ alpha \in 0..FullyOpaque
    /\ new_img = << >>
    /\ pcT = "call"
    /\ DriverIdle /\ ImageIdle /\ VideoIdle

MakeTransparent ==
    /\ pcT = "call"
    /\ new_img' = make_transparent(img, alpha)
    /\ pcT' = "returned"
    /\ UNCHANGED <<img, alpha>>
    /\ UNCHANGED <<driver_vars, image_vars, video_vars>>

NextTransparent == MakeTransparent

SpecTransparent == InitTransparent /\ [][NextTransparent]_vars

\* C5: for every opacity O in 0..255 and every pixel of the logo, the returned
\* pixel keeps R, G and B, has alpha 0 where the original alpha is 0 and alpha
\* O wherever the original alpha is not 0.
\* (Violated at O = 255: the image is returned untouched, so a pixel of alpha
\* 128 keeps 128.)
C5_AlphaSetToOpacity ==
    pcT = "returned" =>
        /\ Len(new_img) = Len(img)
        /\ \A i \in 1..Len(img) :
              /\ new_img[i][1] = img[i][1]
              /\ new_img[i][2] = img[i][2]
              /\ new_img[i][3] = img[i][3]
              /\ img[i][4] = 0 => new_img[i][4] = 0
              /\ img[i][4] # 0 => new_img[i][4] = alpha

----------------------------------------------------------------------------
\* add_logo_to_image: the size of the resized logo and the paste position.

\* Line 70.
margin_bottom == 50

ImageSides == (1..MaxImageSide) \cup {margin_bottom + k : k \in 1..MaxImageSide}

Abs(n) == IF n < 0 THEN -n ELSE n

\* int(a / b): Python's int() truncates toward zero.
int_of_quotient(a, b) ==
    IF (a >= 0) = (b > 0) THEN Abs(a) \div Abs(b) ELSE -(Abs(a) \div Abs(b))

\* The built-in round(a / b) for a >= 0, b > 0: to nearest, ties to even.
round_of_quotient(a, b) ==
    LET q == a \div b
        r == a % b
    IN  IF 2 * r < b THEN q
        ELSE IF 2 * r > b THEN q + 1
        ELSE IF q % 2 = 0 THEN q ELSE q + 1

\* The width computed by rounding instead of truncating.
new_logo_width_rounded(size, height) ==
    round_of_quotient(size[1] * height, size[2])

\* Line 65: new_logo_width = int(logo_width * new_logo_height / logo_height)
new_logo_width(size, height) == int_of_quotient(size[1] * height, size[2])

\* The position computed with a division that truncates toward zero.
position_truncating(isize, lsize) ==
    <<int_of_quotient(isize[1] - lsize[1], 2), isize[2] - lsize[2] - margin_bottom>>

\* Line 71: ((image_width - new_logo_width) // 2,
\*           image_height - new_logo_height - margin_bottom)
position(isize, lsize) ==
    <<(isize[1] - lsize[1]) \div 2, isize[2] - lsize[2] - margin_bottom>>

InitImage ==
    /\ logo_size \in (1..MaxLogoSide) \X (1..MaxLogoSide)
    /\ image_size \in ImageSides \X ImageSides
    /\ new_logo_height \in 1..MaxTargetHeight
    /\ resized_size = <<0, 0>>
    /\ paste_at = <<0, 0>>
    /\ pcI = "opened"
    /\ DriverIdle /\ PixelIdle /\ VideoIdle

\* Lines 64-66: the logo is resized to (new_logo_width, new_logo_height).
ResizeLogo ==
    /\ pcI = "opened"
    /\ resized_size' = <<new_logo_width(logo_size, new_logo_height), new_logo_height>>
    /\ pcI' = "resized"
    /\ UNCHANGED <<logo_size, image_size, new_logo_height, paste_at>>
    /\ UNCHANGED <<driver_vars, pixel_vars, video_vars>>

\* Lines 69-77: the position is computed and the logo pasted there.
PasteLogo ==
    /\ pcI = "resized"
    /\ paste_at' = position(image_size, resized_size)
    /\ pcI' = "pasted"
    /\ UNCHANGED <<logo_size, image_size, new_logo_height, resized_size>>
    /\ UNCHANGED <<driver_vars, pixel_vars, video_vars>>

NextImage ==
    \/ ResizeLogo
    \/ PasteLogo

SpecImage == InitImage /\ [][NextImage]_vars

\* C6 as claimed: the logo is resized to height H and width round(w * H / h).
C6_WidthIsRounded ==
    pcI # "opened" =>
        /\ resized_size[2] = new_logo_height
        /\ resized_size[1] =
              round_of_quotient(logo_size[1] * new_logo_height, logo_size[2])

\* C6 amended: the logo is resized to height H and width floor(w * H / h), the
\* quotient truncated: the width is round(w * H / h) or one less.
C6_WidthIsTruncated ==
    pcI # "opened" =>
        LET w == logo_size[1]
            h == logo_size[2]
            nw == resized_size[1]
        IN  /\ resized_size[2] = new_logo_height
            /\ nw * h <= w * new_logo_height
            /\ w * new_logo_height < (nw + 1) * h
            /\ nw \in {round_of_quotient(w * new_logo_height, h) - 1,
                       round_of_quotient(w * new_logo_height, h)}

\* C6 witness: a resize whose exact quotient has a fraction above one half, so
\* that truncating and rounding differ.
C6_Witness ==
    /\ pcI = "resized"
    /\ 2 * ((logo_size[1] * new_logo_height) % logo_size[2]) > logo_size[2]
    /\ resized_size[1] >= 1

\* C7: the paste position is x = (W - lw) / 2, taken downwards to a whole
\* pixel, and y = Hi - lh - 50: the left and right gaps differ by at most one
\* pixel and the logo's bottom edge lies 50 pixels above the image's, also for
\* odd W - lw and for a logo larger than the image.
C7_BottomCentre ==
    pcI = "pasted" =>
        LET W == image_size[1]
            Hi == image_size[2]
            lw == resized_size[1]
            lh == resized_size[2]
            x == paste_at[1]
            y == paste_at[2]
            left == x
            right == W - (x + lw)
        IN  /\ 2 * x <= W - lw
            /\ W - lw <= 2 * x + 1
            /\ right - left \in {0, 1}
            /\ y = Hi - lh - 50
            /\ Hi - (y + lh) = 50

\* C7 witness: a logo wider than the image by an odd number of pixels and
\* reaching above its top edge.
C7_Witness ==
    /\ pcI = "pasted"
    /\ image_size[1] < resized_size[1]
    /\ (resized_size[1] - image_size[1]) % 2 = 1
    /\ paste_at[1] < 0
    /\ paste_at[2] < 0

----------------------------------------------------------------------------
\* add_logo_to_video: the clip's time span from load to write.

\* Line 43: final.subclip(4)
t_start_seconds == 4

\* VideoFileClip(video_path, audio=False)
load_video(d, has_audio) ==
    [offset |-> 0, duration |-> d, audio |-> FALSE, logo |-> FALSE]

\* CompositeVideoClip([video, logo]) with the logo held for video.duration:
\* the composite lasts as long as its longest layer and has the audio of its
\* layers.
composite(video, logo_duration) ==
    [offset |-> video.offset,
     duration |-> IF logo_duration > video.duration THEN logo_duration
                  ELSE video.duration,
     audio |-> video.audio,
     logo |-> TRUE]

\* Clip.subclip raises ValueError when t_start lies beyond the clip's end.
subclip_error(c, t) == IF t > c.duration THEN "ValueError" ELSE "none"

\* A trim that keeps the clip from its beginning.
subclip_from_zero(c, t) == c

\* Clip.subclip(t_start): the clip from t_start to its end.
subclip(c, t) ==
    [c EXCEPT !.offset = c.offset + t, !.duration = c.duration - t]

\* write_videofile(output_path, audio=False): the span of the composite that
\* the file holds.
write_videofile(c) ==
    [from |-> c.offset, to |-> c.offset + c.duration, audio |-> FALSE,
     logo |-> c.logo]

InitVideo ==
    /\ duration \in 0..MaxDuration
    /\ src_audio \in BOOLEAN
    /\ clip = NoClip
    /\ written = {}
    /\ errV = "none"
    /\ pcV = "start"
    /\ DriverIdle /\ PixelIdle /\ ImageIdle

\* Line 22.
LoadVideo ==
    /\ pcV = "start"
    /\ clip' = load_video(duration, src_audio)
    /\ pcV' = "loaded"
    /\ UNCHANGED <<duration, src_audio, written, errV>>
    /\ UNCHANGED <<driver_vars, pixel_vars, image_vars>>

\* Lines 25-40.
Composite ==
    /\ pcV = "loaded"
    /\ clip' = composite(clip, clip.duration)
    /\ pcV' = "composited"
    /\ UNCHANGED <<duration, src_audio, written, errV>>
    /\ UNCHANGED <<driver_vars, pixel_vars, image_vars>>

\* Line 43, final.subclip(4)
Trim ==
    /\ pcV = "composited"
    /\ LET t == t_start_seconds * TicksPerSecond
       IN  IF subclip_error(clip, t) # "none"
           THEN /\ errV' = subclip_error(clip, t)
                /\ pcV' = "raised"
                /\ clip' = clip
           ELSE /\ clip' = subclip(clip, t)
                /\ pcV' = "trimmed"
                /\ errV' = errV
    /\ UNCHANGED <<duration, src_audio, written>>
    /\ UNCHANGED <<driver_vars, pixel_vars, image_vars>>

\* Line 43, .write_videofile(output_path, audio=False, logger=None)
WriteVideo ==
    /\ pcV = "trimmed"
    /\ written' = {write_videofile(clip)}
    /\ pcV' = "written"
    /\ UNCHANGED <<duration, src_audio, clip, errV>>
    /\ UNCHANGED <<driver_vars, pixel_vars, image_vars>>

NextVideo ==
    \/ LoadVideo
    \/ Composite
    \/ Trim
    \/ WriteVideo

SpecVideo == InitVideo /\ [][NextVideo]_vars

\* C8: the first 4 seconds of the composite are always dropped: a source of
\* duration d >= 4 s is written as the span [4 s, d] of the composite, with
\* the logo and without audio, and never raises in the trim; a source of
\* duration d < 4 s raises in the trim and no file is ever written.
C8_FirstFourSecondsDropped ==
    LET four == 4 * TicksPerSecond
    IN  /\ \A f \in written :
              /\ f.from = four /\ f.to = duration /\ f.from <= f.to
              /\ ~f.audio /\ f.logo
        /\ pcV = "written" => (duration >= four /\ written # {} /\ errV = "none")
        /\ duration >= four => (pcV # "raised" /\ errV = "none")
        /\ duration < four =>
              /\ written = {}
              /\ pcV \in {"start", "loaded", "composited", "raised"}
              /\ pcV = "raised" => errV # "none"

\* C8 witness: a source shorter than 4 seconds has ended in the error, nothing
\* written.
C8_Witness ==
    /\ pcV = "raised"
    /\ duration > 0
    /\ duration < 4 * TicksPerSecond
    /\ written = {}

====
